---------------------------- MODULE Spec2Model ----------------------------
(***************************************************************************)
(* Model of nextest-runner/src/errors.rs: the error types of the runner,   *)
(* their constructors, their Display renderings and their source() chains. *)
(*                                                                         *)
(* A Rust String / str / path is a finite sequence of bytes (0..255), so   *)
(* that ordering (sort_unstable), concatenation (write!) and containment   *)
(* are the byte-wise ones of the program.  An error value is a record with *)
(* the fields of the Rust struct or enum variant, tagged by "type" and,    *)
(* for enums, "variant".  Tuple-variant payloads are the field f0.         *)
(***************************************************************************)
EXTENDS Integers, Sequences, FiniteSets

VARIABLES
    err,       \* the error value most recently constructed
    args,      \* the arguments its constructor was called with
    rendered,  \* result of err.to_string() (Display::fmt), once called
    chain,     \* causes obtained so far by walking source() from err
    walk,      \* "idle" | "walking" | "end": state of the source() walk
    resolved,  \* outcome of the last target-runner resolution
    variants   \* what variants() of each string-encoded setting returns

vars == <<err, args, rendered, chain, walk, resolved, variants>>

---------------------------------------------------------------------------
\* Bounds of the model.

\* Longest caller-supplied text (message, output, input, key, value, path).
MaxLen == 2
\* Most known profile names handed to ProfileNotFound::new.
MaxProfiles == 3

---------------------------------------------------------------------------
\* Option<T>

None == [some |-> FALSE]
Some(x) == [some |-> TRUE, val |-> x]

---------------------------------------------------------------------------
\* Byte strings.

\* All byte strings over alphabet A of length at most n.
Str(A, n) == UNION {[1..k -> A] : k \in 0..n}

\* s is a prefix of t.
IsPrefix(s, t) == Len(s) <= Len(t) /\ SubSeq(t, 1, Len(s)) = s

\* s is a suffix of t.
IsSuffix(s, t) ==
    Len(s) <= Len(t) /\ SubSeq(t, Len(t) - Len(s) + 1, Len(t)) = s

\* s occurs in t as a contiguous substring.
Contains(t, s) ==
    \E i \in 0..(Len(t) - Len(s)) : SubSeq(t, i + 1, i + Len(s)) = s

\* Ord for str: byte-wise lexicographic order, a <= b.
RECURSIVE StrLe(_, _)
StrLe(a, b) ==
    IF a = <<>> THEN TRUE
    ELSE IF b = <<>> THEN FALSE
    ELSE IF Head(a) < Head(b) THEN TRUE
    ELSE IF Head(a) > Head(b) THEN FALSE
    ELSE StrLe(Tail(a), Tail(b))

\* Insert x into the ascending list l, keeping it ascending.
RECURSIVE SortedInsert(_, _)
SortedInsert(x, l) ==
    IF l = <<>> THEN <<x>>
    ELSE IF StrLe(x, Head(l)) THEN <<x>> \o l
    ELSE <<Head(l)>> \o SortedInsert(x, Tail(l))

\* Vec<String>::sort_unstable: ascending by Ord for String.  Equal strings
\* are indistinguishable, so instability is not observable.
RECURSIVE sort_unstable(_)
sort_unstable(l) ==
    IF l = <<>> THEN <<>>
    ELSE SortedInsert(Head(l), sort_unstable(Tail(l)))

\* [String]::join(sep).
RECURSIVE join(_, _)
join(l, sep) ==
    IF l = <<>> THEN <<>>
    ELSE IF Len(l) = 1 THEN Head(l)
    ELSE Head(l) \o sep \o join(Tail(l), sep)

---------------------------------------------------------------------------
\* String literals of the format strings, as bytes.

\* failed to parse nextest config at `
S_ConfigParse_pre == <<102, 97, 105, 108, 101, 100, 32, 116, 111, 32, 112, 97, 114, 115, 101, 32, 110, 101, 120, 116, 101, 115, 116, 32, 99, 111, 110, 102, 105, 103, 32, 97, 116, 32, 96>>
\* `
S_Backtick == <<96>>
\* profile '
S_Profile_pre == <<112, 114, 111, 102, 105, 108, 101, 32, 39>>
\* ' not found (known profiles: 
S_Profile_mid == <<39, 32, 110, 111, 116, 32, 102, 111, 117, 110, 100, 32, 40, 107, 110, 111, 119, 110, 32, 112, 114, 111, 102, 105, 108, 101, 115, 58, 32>>
\* )
S_CloseParen == <<41>>
\* , 
S_CommaSpace == <<44, 32>>
\* unrecognized value for test output display: 
S_TestOutputDisplay_pre == <<117, 110, 114, 101, 99, 111, 103, 110, 105, 122, 101, 100, 32, 118, 97, 108, 117, 101, 32, 102, 111, 114, 32, 116, 101, 115, 116, 32, 111, 117, 116, 112, 117, 116, 32, 100, 105, 115, 112, 108, 97, 121, 58, 32>>
\* unrecognized value for status-level: 
S_StatusLevel_pre == <<117, 110, 114, 101, 99, 111, 103, 110, 105, 122, 101, 100, 32, 118, 97, 108, 117, 101, 32, 102, 111, 114, 32, 115, 116, 97, 116, 117, 115, 45, 108, 101, 118, 101, 108, 58, 32>>
\* unrecognized value for run-ignored: 
S_RunIgnored_pre == <<117, 110, 114, 101, 99, 111, 103, 110, 105, 122, 101, 100, 32, 118, 97, 108, 117, 101, 32, 102, 111, 114, 32, 114, 117, 110, 45, 105, 103, 110, 111, 114, 101, 100, 58, 32>>
\* \\n(known values: 
S_KnownValues == <<10, 40, 107, 110, 111, 119, 110, 32, 118, 97, 108, 117, 101, 115, 58, 32>>
\* partition must be in the format "
S_Partition_pre == <<112, 97, 114, 116, 105, 116, 105, 111, 110, 32, 109, 117, 115, 116, 32, 98, 101, 32, 105, 110, 32, 116, 104, 101, 32, 102, 111, 114, 109, 97, 116, 32, 34>>
\* ":\\n
S_Partition_mid == <<34, 58, 10>>
\* error reading Cargo JSON messages
S_ReadMessages == <<101, 114, 114, 111, 114, 32, 114, 101, 97, 100, 105, 110, 103, 32, 67, 97, 114, 103, 111, 32, 74, 83, 79, 78, 32, 109, 101, 115, 115, 97, 103, 101, 115>>
\* error querying package graph
S_PackageGraph == <<101, 114, 114, 111, 114, 32, 113, 117, 101, 114, 121, 105, 110, 103, 32, 112, 97, 99, 107, 97, 103, 101, 32, 103, 114, 97, 112, 104>>
\* running '
S_Running_pre == <<114, 117, 110, 110, 105, 110, 103, 32, 39>>
\* ' failed
S_Running_post == <<39, 32, 102, 97, 105, 108, 101, 100>>
\* \\nfull output:\\n
S_FullOutput == <<10, 102, 117, 108, 108, 32, 111, 117, 116, 112, 117, 116, 58, 10>>
\* error writing to output
S_WritingToOutput == <<101, 114, 114, 111, 114, 32, 119, 114, 105, 116, 105, 110, 103, 32, 116, 111, 32, 111, 117, 116, 112, 117, 116>>
\* error serializing to JSON
S_SerializingJson == <<101, 114, 114, 111, 114, 32, 115, 101, 114, 105, 97, 108, 105, 122, 105, 110, 103, 32, 116, 111, 32, 74, 83, 79, 78>>
\* error operating on path 
S_OperatingOnPath == <<101, 114, 114, 111, 114, 32, 111, 112, 101, 114, 97, 116, 105, 110, 103, 32, 111, 110, 32, 112, 97, 116, 104, 32>>
\* error writing JUnit output to 
S_WritingJunit == <<101, 114, 114, 111, 114, 32, 119, 114, 105, 116, 105, 110, 103, 32, 74, 85, 110, 105, 116, 32, 111, 117, 116, 112, 117, 116, 32, 116, 111, 32>>
\* unable to determine host triple: 
S_UnknownHost == <<117, 110, 97, 98, 108, 101, 32, 116, 111, 32, 100, 101, 116, 101, 114, 109, 105, 110, 101, 32, 104, 111, 115, 116, 32, 116, 114, 105, 112, 108, 101, 58, 32>>
\* environment variable '
S_EnvVar_pre == <<101, 110, 118, 105, 114, 111, 110, 109, 101, 110, 116, 32, 118, 97, 114, 105, 97, 98, 108, 101, 32, 39>>
\* ' contained non-utf8 data
S_EnvVar_post == <<39, 32, 99, 111, 110, 116, 97, 105, 110, 101, 100, 32, 110, 111, 110, 45, 117, 116, 102, 56, 32, 100, 97, 116, 97>>
\* runner '
S_Runner_pre == <<114, 117, 110, 110, 101, 114, 32, 39>>
\* ' = '
S_Runner_mid == <<39, 32, 61, 32, 39>>
\* ' did not contain a runner binary
S_Runner_post == <<39, 32, 100, 105, 100, 32, 110, 111, 116, 32, 99, 111, 110, 116, 97, 105, 110, 32, 97, 32, 114, 117, 110, 110, 101, 114, 32, 98, 105, 110, 97, 114, 121>>
\* unable to read directory: 
S_ReadDir == <<117, 110, 97, 98, 108, 101, 32, 116, 111, 32, 114, 101, 97, 100, 32, 100, 105, 114, 101, 99, 116, 111, 114, 121, 58, 32>>
\* failed to canonicalize path '
S_Canon_pre == <<102, 97, 105, 108, 101, 100, 32, 116, 111, 32, 99, 97, 110, 111, 110, 105, 99, 97, 108, 105, 122, 101, 32, 112, 97, 116, 104, 32, 39>>
\* ': 
S_QuoteColon == <<39, 58, 32>>
\* path '
S_Path_pre == <<112, 97, 116, 104, 32, 39>>
\* ' is non-utf8
S_Path_post == <<39, 32, 105, 115, 32, 110, 111, 110, 45, 117, 116, 102, 56>>
\* failed to read '
S_ReadConfig_pre == <<102, 97, 105, 108, 101, 100, 32, 116, 111, 32, 114, 101, 97, 100, 32, 39>>
\* failed to parse config '
S_ParseConfig_pre == <<102, 97, 105, 108, 101, 100, 32, 116, 111, 32, 112, 97, 114, 115, 101, 32, 99, 111, 110, 102, 105, 103, 32, 39>>
\* failed to parse triple '
S_Triple_pre == <<102, 97, 105, 108, 101, 100, 32, 116, 111, 32, 112, 97, 114, 115, 101, 32, 116, 114, 105, 112, 108, 101, 32, 39>>
\* '
S_Quote == <<39>>
\*  did not contain a runner binary
S_Runner_post_bare == <<32, 100, 105, 100, 32, 110, 111, 116, 32, 99, 111, 110, 116, 97, 105, 110, 32, 97, 32, 114, 117, 110, 110, 101, 114, 32, 98, 105, 110, 97, 114, 121>>
\* failed to parse triple: 
S_Triple_bare == <<102, 97, 105, 108, 101, 100, 32, 116, 111, 32, 112, 97, 114, 115, 101, 32, 116, 114, 105, 112, 108, 101, 58, 32>>

---------------------------------------------------------------------------
\* Errors of other crates stored as underlying causes.  Only what this
\* module uses of them is modelled: the library type and its Display text.

\* E1
T_E1 == <<69, 49>>
\* E2
T_E2 == <<69, 50>>

ErrTexts == {T_E1, T_E2}

ExtErrors(lib) == {[lib |-> lib, text |-> t] : t \in ErrTexts}

IoErrors == ExtErrors("std::io::Error")
ConfigErrors == ExtErrors("config::ConfigError")
GuppyErrors == ExtErrors("guppy::Error")
QuickJunitErrors == ExtErrors("quick_junit::Error")
TomlErrors == ExtErrors("toml::de::Error")
TargetSpecErrors == ExtErrors("target_spec::Error")
TripleParseErrors == ExtErrors("target_spec::errors::TripleParseError")

\* serde_json::Error: besides syntax, data and EOF errors it carries the I/O
\* errors of the writer it serializes into (category Io).
SerdeCategories == {"Io", "Syntax", "Data", "Eof"}
SerdeJsonErrors ==
    {[lib |-> "serde_json::Error", category |-> c, text |-> T_E1] :
        c \in SerdeCategories}

\* Display of an error of another crate.
ExtDisplay(e) == e.text

---------------------------------------------------------------------------
\* Inputs.

\* a, line feed, '
TextAlphabet == {97, 10, 39}
\* /, p
PathAlphabet == {47, 112}
\* p, and 0xFF, a byte that occurs in no UTF-8 encoding
OsPathAlphabet == {112, 255}
\* a, b
NameAlphabet == {97, 98}

Texts == Str(TextAlphabet, MaxLen)
Utf8Paths == Str(PathAlphabet, MaxLen)
OsPaths == Str(OsPathAlphabet, MaxLen)
\* Profile names:  "", a, b, ab, ba
ProfileNames == {<<>>, <<97>>, <<98>>, <<97, 98>>, <<98, 97>>}
ProfileLists == UNION {[1..k -> ProfileNames] : k \in 0..MaxProfiles}

\* Utf8PathBuf Display: the path's str, written as it is.
Utf8PathDisplay(p) == p

\* std::path::Display (PathBuf::display()): lossy UTF-8.  Over
\* OsPathAlphabet every 0xFF is an invalid sequence of its own and is
\* replaced by U+FFFD (EF BF BD); ASCII bytes are kept.
RECURSIVE PathDisplay(_)
PathDisplay(p) ==
    IF p = <<>> THEN <<>>
    ELSE (IF Head(p) = 255 THEN <<239, 191, 189>> ELSE <<Head(p)>>)
             \o PathDisplay(Tail(p))

---------------------------------------------------------------------------
\* ConfigParseError

ConfigParseError_new(config_file, e) ==
    [type |-> "ConfigParseError", config_file |-> config_file, err |-> e]

ConfigParseError_fmt(self) ==
    S_ConfigParse_pre \o Utf8PathDisplay(self.config_file) \o S_Backtick

ConfigParseError_source(self) == Some(self.err)

---------------------------------------------------------------------------
\* ProfileNotFound

\* Variant: the known names are kept in the order given.
ProfileNotFound_new_unsorted(profile, all_profiles) ==
    [type |-> "ProfileNotFound",
     profile |-> profile,
     all_profiles |-> all_profiles]

ProfileNotFound_new(profile, all_profiles) ==
    [type |-> "ProfileNotFound",
     profile |-> profile,
     all_profiles |-> sort_unstable(all_profiles)]

ProfileNotFound_fmt(self) ==
    S_Profile_pre \o self.profile \o S_Profile_mid
        \o join(self.all_profiles, S_CommaSpace) \o S_CloseParen

\* impl error::Error for ProfileNotFound {}: the default source().
ProfileNotFound_source(self) == None

---------------------------------------------------------------------------
\* TestOutputDisplayParseError, StatusLevelParseError, RunIgnoredParseError

\* TestOutputDisplay::variants(), StatusLevel::variants() and
\* RunIgnored::variants() are called by the fmt impls below but defined in
\* reporter.rs and test_filter.rs.  Nothing here fixes what they return: each
\* is some fixed list of value names, the same at every call.  The list of
\* each setting is chosen once, in the initial state, and never changes.
\* a, n
ValueNames == {<<97>>, <<110>>}
\* The lists a variants() may return: value names in any order.
VariantLists ==
    {l \in UNION {[1..k -> ValueNames] : k \in 1..Cardinality(ValueNames)} :
        \A i, j \in DOMAIN l : l[i] = l[j] => i = j}
VariantChoices ==
    [TestOutputDisplay : VariantLists, StatusLevel : VariantLists,
     RunIgnored : VariantLists]

TestOutputDisplay_variants == variants.TestOutputDisplay
StatusLevel_variants == variants.StatusLevel
RunIgnored_variants == variants.RunIgnored

TestOutputDisplayParseError_new(input) ==
    [type |-> "TestOutputDisplayParseError", input |-> input]

TestOutputDisplayParseError_fmt(self) ==
    S_TestOutputDisplay_pre \o self.input \o S_KnownValues
        \o join(TestOutputDisplay_variants, S_CommaSpace) \o S_CloseParen

StatusLevelParseError_new(input) ==
    [type |-> "StatusLevelParseError", input |-> input]

StatusLevelParseError_fmt(self) ==
    S_StatusLevel_pre \o self.input \o S_KnownValues
        \o join(StatusLevel_variants, S_CommaSpace) \o S_CloseParen

RunIgnoredParseError_new(input) ==
    [type |-> "RunIgnoredParseError", input |-> input]

\* A rendering that lists the values in byte order, whatever the order
\* variants() returns them in.
RunIgnoredParseError_fmt_sorted_values(self) ==
    S_RunIgnored_pre \o self.input \o S_KnownValues
        \o join(sort_unstable(RunIgnored_variants), S_CommaSpace)
        \o S_CloseParen

RunIgnoredParseError_fmt(self) ==
    S_RunIgnored_pre \o self.input \o S_KnownValues
        \o join(RunIgnored_variants, S_CommaSpace) \o S_CloseParen

\* impl error::Error for ...ParseError {}: the default source().
ParseError_source(self) == None

---------------------------------------------------------------------------
\* PartitionerBuilderParseError

\* The &'static str formats a caller can pass:  hash:M/N  and  count:M/N
F_Hash == <<104, 97, 115, 104, 58, 77, 47, 78>>
F_Count == <<99, 111, 117, 110, 116, 58, 77, 47, 78>>
ExpectedFormats == {None, Some(F_Hash), Some(F_Count)}

PartitionerBuilderParseError_new(expected_format, message) ==
    [type |-> "PartitionerBuilderParseError",
     expected_format |-> expected_format,
     message |-> message]

\* Variant: the expected format is never written.
PartitionerBuilderParseError_fmt_message_only(self) == self.message

PartitionerBuilderParseError_fmt(self) ==
    IF self.expected_format.some
    THEN S_Partition_pre \o self.expected_format.val \o S_Partition_mid
             \o self.message
    ELSE self.message

PartitionerBuilderParseError_source(self) == None

---------------------------------------------------------------------------
\* FromMessagesError

FromMessagesError_ReadMessages(e) ==
    [type |-> "FromMessagesError", variant |-> "ReadMessages", f0 |-> e]

FromMessagesError_PackageGraph(e) ==
    [type |-> "FromMessagesError", variant |-> "PackageGraph", f0 |-> e]

FromMessagesError_fmt(self) ==
    CASE self.variant = "ReadMessages" -> S_ReadMessages
      [] self.variant = "PackageGraph" -> S_PackageGraph

FromMessagesError_source(self) ==
    CASE self.variant = "ReadMessages" -> Some(self.f0)
      [] self.variant = "PackageGraph" -> Some(self.f0)

---------------------------------------------------------------------------
\* ParseTestListError

\* Inputs of ParseTestListError: the short texts, and one longer text each
\* that embeds a piece of the other variant's format string.
\* x, line feed, full output:, line feed, y
T_CommandWithMarker ==
    <<120>> \o S_FullOutput \o <<121>>
\* running 'x
T_MessageLikeCommand == S_Running_pre \o <<120>>
\* y' failed
T_OutputLikeCommand == <<121>> \o S_Running_post
Commands == Texts \cup {T_CommandWithMarker}
Messages == Texts \cup {T_MessageLikeCommand}
Outputs == Texts \cup {T_OutputLikeCommand}

ParseTestListError_command(command, error) ==
    [type |-> "ParseTestListError", variant |-> "Command",
     command |-> command, error |-> error]

\* The text of s up to its first line feed.
RECURSIVE FirstLine(_)
FirstLine(s) ==
    IF s = <<>> \/ Head(s) = 10 THEN <<>>
    ELSE <<Head(s)>> \o FirstLine(Tail(s))

\* Variant: only the first line of the output is kept.
ParseTestListError_parse_line_first_line(message, full_output) ==
    [type |-> "ParseTestListError", variant |-> "ParseLine",
     message |-> message, full_output |-> FirstLine(full_output)]

ParseTestListError_parse_line(message, full_output) ==
    [type |-> "ParseTestListError", variant |-> "ParseLine",
     message |-> message, full_output |-> full_output]

ParseTestListError_fmt(self) ==
    CASE self.variant = "Command" ->
             S_Running_pre \o self.command \o S_Running_post
      [] self.variant = "ParseLine" ->
             self.message \o S_FullOutput \o self.full_output

\* Variant: the launch failure's I/O cause is not chained.
ParseTestListError_source_none(self) == None

ParseTestListError_source(self) ==
    CASE self.variant = "Command" -> Some(self.error)
      [] self.variant = "ParseLine" -> None

---------------------------------------------------------------------------
\* WriteTestListError

WriteTestListError_Io(e) ==
    [type |-> "WriteTestListError", variant |-> "Io", f0 |-> e]

WriteTestListError_Json(e) ==
    [type |-> "WriteTestListError", variant |-> "Json", f0 |-> e]

\* Variant: both kinds write the text of the Io kind.
WriteTestListError_fmt_same_text(self) ==
    CASE self.variant = "Io" -> S_WritingToOutput
      [] self.variant = "Json" -> S_WritingToOutput

WriteTestListError_fmt(self) ==
    CASE self.variant = "Io" -> S_WritingToOutput
      [] self.variant = "Json" -> S_SerializingJson

WriteTestListError_source(self) ==
    CASE self.variant = "Io" -> Some(self.f0)
      [] self.variant = "Json" -> Some(self.f0)

---------------------------------------------------------------------------
\* JunitError

JunitError_new(e) == [type |-> "JunitError", err |-> e]

\* fmt writes nothing.
JunitError_fmt(self) == <<>>

JunitError_source(self) == Some(self.err)

JunitErrors == {JunitError_new(e) : e \in QuickJunitErrors}

---------------------------------------------------------------------------
\* WriteEventError

WriteEventError_Io(e) ==
    [type |-> "WriteEventError", variant |-> "Io", f0 |-> e]

WriteEventError_Fs(file, error) ==
    [type |-> "WriteEventError", variant |-> "Fs",
     file |-> file, error |-> error]

WriteEventError_Junit(file, error) ==
    [type |-> "WriteEventError", variant |-> "Junit",
     file |-> file, error |-> error]

\* Variant: the JUnit arm does not write the file.
WriteEventError_fmt_no_file(self) ==
    CASE self.variant = "Io" -> S_WritingToOutput
      [] self.variant = "Fs" ->
             S_OperatingOnPath \o Utf8PathDisplay(self.file)
      [] self.variant = "Junit" -> S_WritingJunit

WriteEventError_fmt(self) ==
    CASE self.variant = "Io" -> S_WritingToOutput
      [] self.variant = "Fs" ->
             S_OperatingOnPath \o Utf8PathDisplay(self.file)
      [] self.variant = "Junit" ->
             S_WritingJunit \o Utf8PathDisplay(self.file)

WriteEventError_source(self) ==
    CASE self.variant = "Io" -> Some(self.f0)
      [] self.variant = "Fs" -> Some(self.error)
      [] self.variant = "Junit" -> Some(self.error)

---------------------------------------------------------------------------
\* TargetRunnerError

TargetRunnerError_UnknownHostPlatform(e) ==
    [type |-> "TargetRunnerError", variant |-> "UnknownHostPlatform",
     f0 |-> e]

TargetRunnerError_InvalidEnvironmentVar(key) ==
    [type |-> "TargetRunnerError", variant |-> "InvalidEnvironmentVar",
     key |-> key]

TargetRunnerError_BinaryNotSpecified(key, value) ==
    [type |-> "TargetRunnerError", variant |-> "BinaryNotSpecified",
     key |-> key, value |-> value]

TargetRunnerError_UnableToReadDir(e) ==
    [type |-> "TargetRunnerError", variant |-> "UnableToReadDir", f0 |-> e]

TargetRunnerError_FailedPathCanonicalization(path, error) ==
    [type |-> "TargetRunnerError", variant |-> "FailedPathCanonicalization",
     path |-> path, error |-> error]

TargetRunnerError_NonUtf8Path(path) ==
    [type |-> "TargetRunnerError", variant |-> "NonUtf8Path", path |-> path]

TargetRunnerError_FailedToReadConfig(path, error) ==
    [type |-> "TargetRunnerError", variant |-> "FailedToReadConfig",
     path |-> path, error |-> error]

TargetRunnerError_FailedToParseConfig(path, error) ==
    [type |-> "TargetRunnerError", variant |-> "FailedToParseConfig",
     path |-> path, error |-> error]

TargetRunnerError_FailedToParseTargetTriple(triple, error) ==
    [type |-> "TargetRunnerError", variant |-> "FailedToParseTargetTriple",
     triple |-> triple, error |-> error]

\* Variant: BinaryNotSpecified writes the key but not the value.
TargetRunnerError_fmt_no_value(self) ==
    CASE self.variant = "UnknownHostPlatform" ->
             S_UnknownHost \o ExtDisplay(self.f0)
      [] self.variant = "InvalidEnvironmentVar" ->
             S_EnvVar_pre \o self.key \o S_EnvVar_post
      [] self.variant = "BinaryNotSpecified" ->
             S_Runner_pre \o self.key \o S_Quote \o S_Runner_post_bare
      [] self.variant = "UnableToReadDir" ->
             S_ReadDir \o ExtDisplay(self.f0)
      [] self.variant = "FailedPathCanonicalization" ->
             S_Canon_pre \o Utf8PathDisplay(self.path) \o S_QuoteColon
                 \o ExtDisplay(self.error)
      [] self.variant = "NonUtf8Path" ->
             S_Path_pre \o PathDisplay(self.path) \o S_Path_post
      [] self.variant = "FailedToReadConfig" ->
             S_ReadConfig_pre \o Utf8PathDisplay(self.path) \o S_QuoteColon
                 \o ExtDisplay(self.error)
      [] self.variant = "FailedToParseConfig" ->
             S_ParseConfig_pre \o Utf8PathDisplay(self.path) \o S_QuoteColon
                 \o ExtDisplay(self.error)
      [] self.variant = "FailedToParseTargetTriple" ->
             S_Triple_pre \o self.triple \o S_QuoteColon
                 \o ExtDisplay(self.error)

\* Variant: FailedToParseTargetTriple does not write the triple.
TargetRunnerError_fmt_no_triple(self) ==
    CASE self.variant = "UnknownHostPlatform" ->
             S_UnknownHost \o ExtDisplay(self.f0)
      [] self.variant = "InvalidEnvironmentVar" ->
             S_EnvVar_pre \o self.key \o S_EnvVar_post
      [] self.variant = "BinaryNotSpecified" ->
             S_Runner_pre \o self.key \o S_Runner_mid \o self.value
                 \o S_Runner_post
      [] self.variant = "UnableToReadDir" ->
             S_ReadDir \o ExtDisplay(self.f0)
      [] self.variant = "FailedPathCanonicalization" ->
             S_Canon_pre \o Utf8PathDisplay(self.path) \o S_QuoteColon
                 \o ExtDisplay(self.error)
      [] self.variant = "NonUtf8Path" ->
             S_Path_pre \o PathDisplay(self.path) \o S_Path_post
      [] self.variant = "FailedToReadConfig" ->
             S_ReadConfig_pre \o Utf8PathDisplay(self.path) \o S_QuoteColon
                 \o ExtDisplay(self.error)
      [] self.variant = "FailedToParseConfig" ->
             S_ParseConfig_pre \o Utf8PathDisplay(self.path) \o S_QuoteColon
                 \o ExtDisplay(self.error)
      [] self.variant = "FailedToParseTargetTriple" ->
             S_Triple_bare \o ExtDisplay(self.error)

TargetRunnerError_fmt(self) ==
    CASE self.variant = "UnknownHostPlatform" ->
             S_UnknownHost \o ExtDisplay(self.f0)
      [] self.variant = "InvalidEnvironmentVar" ->
             S_EnvVar_pre \o self.key \o S_EnvVar_post
      [] self.variant = "BinaryNotSpecified" ->
             S_Runner_pre \o self.key \o S_Runner_mid \o self.value
                 \o S_Runner_post
      [] self.variant = "UnableToReadDir" ->
             S_ReadDir \o ExtDisplay(self.f0)
      [] self.variant = "FailedPathCanonicalization" ->
             S_Canon_pre \o Utf8PathDisplay(self.path) \o S_QuoteColon
                 \o ExtDisplay(self.error)
      [] self.variant = "NonUtf8Path" ->
             S_Path_pre \o PathDisplay(self.path) \o S_Path_post
      [] self.variant = "FailedToReadConfig" ->
             S_ReadConfig_pre \o Utf8PathDisplay(self.path) \o S_QuoteColon
                 \o ExtDisplay(self.error)
      [] self.variant = "FailedToParseConfig" ->
             S_ParseConfig_pre \o Utf8PathDisplay(self.path) \o S_QuoteColon
                 \o ExtDisplay(self.error)
      [] self.variant = "FailedToParseTargetTriple" ->
             S_Triple_pre \o self.triple \o S_QuoteColon
                 \o ExtDisplay(self.error)

\* Variant: the arm of FailedToParseTargetTriple is missing.
TargetRunnerError_source_missing_arm(self) ==
    CASE self.variant = "UnknownHostPlatform" -> Some(self.f0)
      [] self.variant = "UnableToReadDir" -> Some(self.f0)
      [] self.variant = "FailedPathCanonicalization" -> Some(self.error)
      [] self.variant = "FailedToReadConfig" -> Some(self.error)
      [] self.variant = "FailedToParseConfig" -> Some(self.error)
      [] OTHER -> None

TargetRunnerError_source(self) ==
    CASE self.variant = "UnknownHostPlatform" -> Some(self.f0)
      [] self.variant = "UnableToReadDir" -> Some(self.f0)
      [] self.variant = "FailedPathCanonicalization" -> Some(self.error)
      [] self.variant = "FailedToReadConfig" -> Some(self.error)
      [] self.variant = "FailedToParseConfig" -> Some(self.error)
      [] self.variant = "FailedToParseTargetTriple" -> Some(self.error)
      [] OTHER -> None

---------------------------------------------------------------------------
\* Trait dispatch: the Display and Error impl of the value's type.

ModuleTypes ==
    {"ConfigParseError", "ProfileNotFound", "TestOutputDisplayParseError",
     "StatusLevelParseError", "RunIgnoredParseError",
     "PartitionerBuilderParseError", "FromMessagesError",
     "ParseTestListError", "WriteTestListError", "WriteEventError",
     "JunitError", "TargetRunnerError"}

\* e is a value of one of this module's error types (not of another crate).
IsModuleError(e) == "type" \in DOMAIN e

to_string(e) ==
    CASE e.type = "ConfigParseError" -> ConfigParseError_fmt(e)
      [] e.type = "ProfileNotFound" -> ProfileNotFound_fmt(e)
      [] e.type = "TestOutputDisplayParseError" ->
             TestOutputDisplayParseError_fmt(e)
      [] e.type = "StatusLevelParseError" -> StatusLevelParseError_fmt(e)
      [] e.type = "RunIgnoredParseError" -> RunIgnoredParseError_fmt(e)
      [] e.type = "PartitionerBuilderParseError" ->
             PartitionerBuilderParseError_fmt(e)
      [] e.type = "FromMessagesError" -> FromMessagesError_fmt(e)
      [] e.type = "ParseTestListError" -> ParseTestListError_fmt(e)
      [] e.type = "WriteTestListError" -> WriteTestListError_fmt(e)
      [] e.type = "WriteEventError" -> WriteEventError_fmt(e)
      [] e.type = "JunitError" -> JunitError_fmt(e)
      [] e.type = "TargetRunnerError" -> TargetRunnerError_fmt(e)

source(e) ==
    CASE e.type = "ConfigParseError" -> ConfigParseError_source(e)
      [] e.type = "ProfileNotFound" -> ProfileNotFound_source(e)
      [] e.type \in {"TestOutputDisplayParseError", "StatusLevelParseError",
                     "RunIgnoredParseError"} -> ParseError_source(e)
      [] e.type = "PartitionerBuilderParseError" ->
             PartitionerBuilderParseError_source(e)
      [] e.type = "FromMessagesError" -> FromMessagesError_source(e)
      [] e.type = "ParseTestListError" -> ParseTestListError_source(e)
      [] e.type = "WriteTestListError" -> WriteTestListError_source(e)
      [] e.type = "WriteEventError" -> WriteEventError_source(e)
      [] e.type = "JunitError" -> JunitError_source(e)
      [] e.type = "TargetRunnerError" -> TargetRunnerError_source(e)

---------------------------------------------------------------------------
\* Target-runner resolution.  The resolver lives in target_runner.rs; it is
\* taken from the specification (section 4.1): the environment variable
\* keyed by the triple is consulted first, then the configuration key; a
\* match must hold a runner binary; no match means direct invocation.

\* t1, t2
Triples == {<<116, 49>>, <<116, 50>>}
\* space, r
RunnerAlphabet == {32, 114}
RunnerValues == Str(RunnerAlphabet, MaxLen)

\* env:
S_EnvKey_pre == <<101, 110, 118, 58>>
\* cfg:
S_ConfigKey_pre == <<99, 102, 103, 58>>
EnvKey(triple) == S_EnvKey_pre \o triple
ConfigKey(triple) == S_ConfigKey_pre \o triple

\* What an environment lookup can yield.
NotPresent == [var |-> "NotPresent"]
NotUnicode == [var |-> "NotUnicode"]
Present(v) == [var |-> "Present", val |-> v]
EnvLookups == {NotPresent, NotUnicode} \cup {Present(v) : v \in RunnerValues}
ConfigLookups == {None} \cup {Some(v) : v \in RunnerValues}

\* str::split_whitespace, over RunnerAlphabet: the maximal runs of
\* non-space bytes, in order.
RECURSIVE SplitFrom(_, _, _)
SplitFrom(s, cur, acc) ==
    IF s = <<>> THEN (IF cur = <<>> THEN acc ELSE Append(acc, cur))
    ELSE IF Head(s) = 32
         THEN SplitFrom(Tail(s), <<>>,
                        IF cur = <<>> THEN acc ELSE Append(acc, cur))
         ELSE SplitFrom(Tail(s), Append(cur, Head(s)), acc)
split_whitespace(s) == SplitFrom(s, <<>>, <<>>)

Ok(v) == [ok |-> TRUE, val |-> v]
Err(e) == [ok |-> FALSE, err |-> e]

\* A matched key's value must hold a binary, then its arguments.
parse_runner(key, value) ==
    LET parts == split_whitespace(value)
    IN  IF parts = <<>>
        THEN Err(TargetRunnerError_BinaryNotSpecified(key, value))
        ELSE Ok(Some([runner_binary |-> Head(parts), args |-> Tail(parts)]))

\* Ok(None) is direct invocation (no wrapper).
resolve_runner(triple, env, config) ==
    IF env.var = "NotUnicode"
    THEN Err(TargetRunnerError_InvalidEnvironmentVar(EnvKey(triple)))
    ELSE IF env.var = "Present"
    THEN parse_runner(EnvKey(triple), env.val)
    ELSE IF config.some
    THEN parse_runner(ConfigKey(triple), config.val)
    ELSE Ok(None)

---------------------------------------------------------------------------
\* The state machine: a value is constructed, then rendered and its
\* source() chain walked.

NoError == [none |-> TRUE]
NoCall == [fn |-> "none"]
NotResolved == [called |-> FALSE]

\* Nothing constructed yet.
Start ==
    /\ err = NoError
    /\ args = NoCall
    /\ rendered = None
    /\ chain = <<>>
    /\ walk = "idle"
    /\ resolved = NotResolved

\* One of the lists the three variants() may return: none in byte order.
SomeVariants ==
    [TestOutputDisplay |-> << <<110>>, <<97>> >>,
     StatusLevel |-> << <<110>>, <<97>> >>,
     RunIgnored |-> << <<110>>, <<97>> >>]

Init == Start /\ variants = SomeVariants

\* Every list the three variants() may return.
InitVariants == Start /\ variants \in VariantChoices

\* One error value is live at a time: the next is built once this one has
\* been dropped.
Vacant == err = NoError /\ resolved = NotResolved

\* A newly built value has not been rendered and its causes not walked.
Fresh ==
    /\ rendered' = None
    /\ chain' = <<>>
    /\ walk' = "idle"
    /\ resolved' = NotResolved
    /\ variants' = variants

NewConfigParseError ==
    \E p \in Utf8Paths, e \in ConfigErrors :
        /\ Vacant
        /\ err' = ConfigParseError_new(p, e)
        /\ args' =
               [fn |-> "ConfigParseError::new", path |-> p, cause |-> e]
        /\ Fresh

NewProfileNotFound ==
    \E p \in ProfileNames, l \in ProfileLists :
        /\ Vacant
        /\ err' = ProfileNotFound_new(p, l)
        /\ args' =
               [fn |-> "ProfileNotFound::new",
                profile |-> p,
                all_profiles |-> l]
        /\ Fresh

NewTestOutputDisplayParseError ==
    \E i \in Texts :
        /\ Vacant
        /\ err' = TestOutputDisplayParseError_new(i)
        /\ args' =
               [fn |-> "TestOutputDisplayParseError::new", input |-> i]
        /\ Fresh

NewStatusLevelParseError ==
    \E i \in Texts :
        /\ Vacant
        /\ err' = StatusLevelParseError_new(i)
        /\ args' =
               [fn |-> "StatusLevelParseError::new", input |-> i]
        /\ Fresh

NewRunIgnoredParseError ==
    \E i \in Texts :
        /\ Vacant
        /\ err' = RunIgnoredParseError_new(i)
        /\ args' =
               [fn |-> "RunIgnoredParseError::new", input |-> i]
        /\ Fresh

NewPartitionerBuilderParseError ==
    \E f \in ExpectedFormats, m \in Texts :
        /\ Vacant
        /\ err' = PartitionerBuilderParseError_new(f, m)
        /\ args' =
               [fn |-> "PartitionerBuilderParseError::new",
                expected_format |-> f,
                message |-> m]
        /\ Fresh

NewFromMessagesError ==
    \/ \E e \in IoErrors :
           /\ Vacant
           /\ err' = FromMessagesError_ReadMessages(e)
           /\ args' =
                  [fn |-> "FromMessagesError::ReadMessages", cause |-> e]
           /\ Fresh
    \/ \E e \in GuppyErrors :
           /\ Vacant
           /\ err' = FromMessagesError_PackageGraph(e)
           /\ args' =
                  [fn |-> "FromMessagesError::PackageGraph", cause |-> e]
           /\ Fresh

NewParseTestListErrorCommand ==
    \E c \in Commands, e \in IoErrors :
        /\ Vacant
        /\ err' = ParseTestListError_command(c, e)
        /\ args' =
               [fn |-> "ParseTestListError::command",
                command |-> c,
                cause |-> e]
        /\ Fresh

NewParseTestListErrorParseLine ==
    \E m \in Messages, o \in Outputs :
        /\ Vacant
        /\ err' = ParseTestListError_parse_line(m, o)
        /\ args' =
               [fn |-> "ParseTestListError::parse_line",
                message |-> m,
                full_output |-> o]
        /\ Fresh

NewWriteTestListError ==
    \/ \E e \in IoErrors :
           /\ Vacant
           /\ err' = WriteTestListError_Io(e)
           /\ args' =
                  [fn |-> "WriteTestListError::Io", cause |-> e]
           /\ Fresh
    \/ \E e \in SerdeJsonErrors :
           /\ Vacant
           /\ err' = WriteTestListError_Json(e)
           /\ args' =
                  [fn |-> "WriteTestListError::Json", cause |-> e]
           /\ Fresh

NewJunitError ==
    \E e \in QuickJunitErrors :
        /\ Vacant
        /\ err' = JunitError_new(e)
        /\ args' =
               [fn |-> "JunitError::new", cause |-> e]
        /\ Fresh

NewWriteEventError ==
    \/ \E e \in IoErrors :
           /\ Vacant
           /\ err' = WriteEventError_Io(e)
           /\ args' =
                  [fn |-> "WriteEventError::Io", cause |-> e]
           /\ Fresh
    \/ \E p \in Utf8Paths, e \in IoErrors :
           /\ Vacant
           /\ err' = WriteEventError_Fs(p, e)
           /\ args' =
                  [fn |-> "WriteEventError::Fs", path |-> p, cause |-> e]
           /\ Fresh
    \/ \E p \in Utf8Paths, e \in QuickJunitErrors :
           /\ Vacant
           /\ err' = WriteEventError_Junit(p, JunitError_new(e))
           /\ args' =
                  [fn |-> "WriteEventError::Junit",
                   path |-> p,
                   cause |-> JunitError_new(e),
                   library |-> e]
           /\ Fresh

NewTargetRunnerError ==
    \/ \E e \in TargetSpecErrors :
           /\ Vacant
           /\ err' = TargetRunnerError_UnknownHostPlatform(e)
           /\ args' =
                  [fn |-> "TargetRunnerError::UnknownHostPlatform",
                   cause |-> e]
           /\ Fresh
    \/ \E k \in Texts :
           /\ Vacant
           /\ err' = TargetRunnerError_InvalidEnvironmentVar(k)
           /\ args' =
                  [fn |-> "TargetRunnerError::InvalidEnvironmentVar",
                   key |-> k]
           /\ Fresh
    \/ \E k \in Texts, v \in RunnerValues :
           /\ Vacant
           /\ err' = TargetRunnerError_BinaryNotSpecified(k, v)
           /\ args' =
                  [fn |-> "TargetRunnerError::BinaryNotSpecified",
                   key |-> k,
                   value |-> v]
           /\ Fresh
    \/ \E e \in IoErrors :
           /\ Vacant
           /\ err' = TargetRunnerError_UnableToReadDir(e)
           /\ args' =
                  [fn |-> "TargetRunnerError::UnableToReadDir", cause |-> e]
           /\ Fresh
    \/ \E p \in Utf8Paths, e \in IoErrors :
           /\ Vacant
           /\ err' = TargetRunnerError_FailedPathCanonicalization(p, e)
           /\ args' =
                  [fn |-> "TargetRunnerError::FailedPathCanonicalization",
                   path |-> p,
                   cause |-> e]
           /\ Fresh
    \/ \E p \in OsPaths :
           /\ Vacant
           /\ err' = TargetRunnerError_NonUtf8Path(p)
           /\ args' =
                  [fn |-> "TargetRunnerError::NonUtf8Path", os_path |-> p]
           /\ Fresh
    \/ \E p \in Utf8Paths, e \in IoErrors :
           /\ Vacant
           /\ err' = TargetRunnerError_FailedToReadConfig(p, e)
           /\ args' =
                  [fn |-> "TargetRunnerError::FailedToReadConfig",
                   path |-> p,
                   cause |-> e]
           /\ Fresh
    \/ \E p \in Utf8Paths, e \in TomlErrors :
           /\ Vacant
           /\ err' = TargetRunnerError_FailedToParseConfig(p, e)
           /\ args' =
                  [fn |-> "TargetRunnerError::FailedToParseConfig",
                   path |-> p,
                   cause |-> e]
           /\ Fresh
    \/ \E t \in Texts, e \in TripleParseErrors :
           /\ Vacant
           /\ err' = TargetRunnerError_FailedToParseTargetTriple(t, e)
           /\ args' =
                  [fn |-> "TargetRunnerError::FailedToParseTargetTriple",
                   triple |-> t,
                   cause |-> e]
           /\ Fresh

\* Target-runner resolution for one triple over an environment and a
\* configuration snapshot.
Resolve ==
    \E t \in Triples, env \in EnvLookups, config \in ConfigLookups :
        LET r == resolve_runner(t, env, config)
        IN  /\ Vacant
            /\ err' = (IF r.ok THEN NoError ELSE r.err)
            /\ args' = [fn |-> "resolve_runner", triple |-> t, env |-> env,
                        config |-> config]
            /\ rendered' = None
            /\ chain' = <<>>
            /\ walk' = "idle"
            /\ resolved' = [called |-> TRUE, result |-> r]
            /\ variants' = variants

\* err.to_string()
Fmt ==
    /\ IsModuleError(err)
    /\ ~rendered.some
    /\ rendered' = Some(to_string(err))
    /\ UNCHANGED <<err, args, chain, walk, resolved, variants>>

\* The error whose source() the walk asks for next.
Cursor == IF chain = <<>> THEN err ELSE chain[Len(chain)]

\* One step of a cause-chain walk: source() of the cursor.  The walk ends at
\* None; the source() of another crate's error is not followed.
Source ==
    /\ walk # "end"
    /\ IsModuleError(Cursor)
    /\ LET r == source(Cursor)
       IN  IF r.some
           THEN chain' = Append(chain, r.val) /\ walk' = "walking"
           ELSE chain' = chain /\ walk' = "end"
    /\ UNCHANGED <<err, args, rendered, resolved, variants>>

\* The error (or the resolved runner) goes out of scope.
Drop ==
    /\ err # NoError \/ resolved # NotResolved
    /\ err' = NoError
    /\ args' = NoCall
    /\ rendered' = None
    /\ chain' = <<>>
    /\ walk' = "idle"
    /\ resolved' = NotResolved
    /\ variants' = variants

Next ==
    \/ NewConfigParseError
    \/ NewProfileNotFound
    \/ NewTestOutputDisplayParseError
    \/ NewStatusLevelParseError
    \/ NewRunIgnoredParseError
    \/ NewPartitionerBuilderParseError
    \/ NewFromMessagesError
    \/ NewParseTestListErrorCommand
    \/ NewParseTestListErrorParseLine
    \/ NewWriteTestListError
    \/ NewJunitError
    \/ NewWriteEventError
    \/ NewTargetRunnerError
    \/ Resolve
    \/ Fmt
    \/ Source
    \/ Drop

Spec == Init /\ [][Next]_vars

\* The errors of the three string-encoded settings, over every list their
\* variants() may return.
NextVariants ==
    \/ NewTestOutputDisplayParseError
    \/ NewStatusLevelParseError
    \/ NewRunIgnoredParseError
    \/ Fmt
    \/ Source
    \/ Drop

SpecVariants == InitVariants /\ [][NextVariants]_vars

---------------------------------------------------------------------------
\* Helpers of the properties.

Quoted(s) == S_Quote \o s \o S_Quote

\* Number of occurrences of x in the list l.
Count(x, l) == Cardinality({i \in 1..Len(l) : l[i] = x})

\* All reorderings of the list l.
Perms(l) ==
    LET n == Len(l)
        bij == {g \in [1..n -> 1..n] : \A i, j \in 1..n : g[i] = g[j] => i = j}
    IN  {[i \in 1..n |-> l[g[i]]] : g \in bij}

\* The list l is ascending in Ord for str.
Ascending(l) == \A i \in 1..(Len(l) - 1) : StrLe(l[i], l[i + 1])

\* The bytes of s.
Bytes(s) == {s[i] : i \in 1..Len(s)}

\* A value of this module's type t has been built and rendered.
Rendered(t) == IsModuleError(err) /\ err.type = t /\ rendered.some

\* source() has been asked of err at least once.
Walked == walk # "idle"

---------------------------------------------------------------------------
\* C1: ProfileNotFound::new(p, names), names in any order: the rendered
\* message names p and lists exactly the supplied names (each as often as
\* supplied) in ascending order, and constructing from any permutation of
\* names renders the identical message.
C1_ProfileNotFoundListsSorted ==
    (args.fn = "ProfileNotFound::new" /\ rendered.some) =>
        LET known == err.all_profiles
        IN  /\ rendered.val =
                   S_Profile_pre \o args.profile \o S_Profile_mid
                       \o join(known, S_CommaSpace) \o S_CloseParen
            /\ Len(known) = Len(args.all_profiles)
            /\ \A n \in ProfileNames :
                   Count(n, known) = Count(n, args.all_profiles)
            /\ Ascending(known)
            /\ \A q \in Perms(args.all_profiles) :
                   to_string(ProfileNotFound_new(args.profile, q))
                       = rendered.val

\* Three names supplied out of order, one of them twice, and rendered.
C1_Witness ==
    /\ args.fn = "ProfileNotFound::new"
    /\ rendered.some
    /\ args.all_profiles = << <<98>>, <<97, 98>>, <<98>> >>
    /\ err.all_profiles = << <<97, 98>>, <<98>>, <<98>> >>

---------------------------------------------------------------------------
\* C2: ParseTestListError::parse_line(message, full_output) keeps the whole
\* captured output unchanged, and the rendered message is the descriptive
\* message followed by the complete output, for every message and output.
C2_ParseLineKeepsFullOutput ==
    (args.fn = "ParseTestListError::parse_line") =>
        /\ err.full_output = args.full_output
        /\ err.message = args.message
        /\ rendered.some =>
               /\ rendered.val =
                      args.message \o S_FullOutput \o args.full_output
               /\ IsPrefix(args.message, rendered.val)
               /\ IsSuffix(args.full_output, rendered.val)

\* A two-line captured output, rendered.
C2_Witness ==
    /\ args.fn = "ParseTestListError::parse_line"
    /\ rendered.some
    /\ args.full_output = <<97, 10>>
    /\ args.message = <<97>>

---------------------------------------------------------------------------
\* C3 as stated: however a PartitionerBuilderParseError is constructed, its
\* rendered message names the expected grammar and carries the caller's
\* text about the offending input.
C3_AlwaysNamesGrammar ==
    Rendered("PartitionerBuilderParseError") =>
        /\ \E f \in {F_Hash, F_Count} : Contains(rendered.val, f)
        /\ Contains(rendered.val, args.message)

\* C3 amended: constructed with Some(format) the rendered message is
\* 'partition must be in the format "<format>":' and, on the next line, the
\* caller's message; constructed with None it is the caller's message alone
\* and names no grammar the caller did not write into it.
C3_NamesGrammarWhenGiven ==
    Rendered("PartitionerBuilderParseError") =>
        IF args.expected_format.some
        THEN rendered.val =
                 S_Partition_pre \o args.expected_format.val
                     \o S_Partition_mid \o args.message
        ELSE rendered.val = args.message

\* A rendered error constructed with the format count:M/N.
C3_Witness ==
    /\ Rendered("PartitionerBuilderParseError")
    /\ args.expected_format = Some(F_Count)
    /\ args.message = <<97, 10>>

---------------------------------------------------------------------------
\* The message of a rendered error of type t: the prefix of the setting,
\* the rejected input as given, and the list joined in the order given.
ParseErrorMessage(t, pre, values) ==
    Rendered(t) =>
        rendered.val =
            pre \o args.input \o S_KnownValues
                \o join(values, S_CommaSpace) \o S_CloseParen

---------------------------------------------------------------------------
\* The keys, paths and triples a TargetRunnerError value stores.
Subjects(e) == {e[f] : f \in DOMAIN e \cap {"key", "path", "triple"}}

\* C5 as stated: the message of every TargetRunnerError variant identifies
\* the offending key, path or triple.
C5_EveryVariantNamesSubject ==
    Rendered("TargetRunnerError") =>
        /\ Subjects(err) # {}
        /\ \A s \in Subjects(err) : Contains(rendered.val, s)

\* C5 amended: the variants that store a key, a UTF-8 path or a triple
\* (InvalidEnvironmentVar, BinaryNotSpecified, FailedPathCanonicalization,
\* FailedToReadConfig, FailedToParseConfig, FailedToParseTargetTriple) render
\* it verbatim in quotes; NonUtf8Path renders its path verbatim only where
\* the path is valid UTF-8 and otherwise with U+FFFD in place of the invalid
\* bytes; UnknownHostPlatform and UnableToReadDir store no key, path or
\* triple and render a fixed text followed by the underlying error's text.
C5_VariantsNameWhatTheyStore ==
    Rendered("TargetRunnerError") =>
        LET m == rendered.val
            v == err.variant
        IN  /\ v \in {"InvalidEnvironmentVar", "BinaryNotSpecified"} =>
                   Contains(m, Quoted(err.key))
            /\ v = "BinaryNotSpecified" => Contains(m, Quoted(err.value))
            /\ v \in {"FailedPathCanonicalization", "FailedToReadConfig",
                      "FailedToParseConfig"} =>
                   /\ err.path = args.path
                   /\ Contains(m, Quoted(args.path) \o <<58, 32>>
                                      \o args.cause.text)
            /\ v = "FailedToParseTargetTriple" =>
                   /\ err.triple = args.triple
                   /\ Contains(m, Quoted(args.triple) \o <<58, 32>>
                                      \o args.cause.text)
            /\ v = "NonUtf8Path" =>
                   /\ Contains(m, Quoted(args.os_path))
                          <=> 255 \notin Bytes(args.os_path)
                   /\ 255 \in Bytes(args.os_path) =>
                          Contains(m, <<239, 191, 189>>)
            /\ v = "UnknownHostPlatform" =>
                   /\ Subjects(err) = {}
                   /\ m = S_UnknownHost \o args.cause.text
            /\ v = "UnableToReadDir" =>
                   /\ Subjects(err) = {}
                   /\ m = S_ReadDir \o args.cause.text

\* A rendered FailedToParseTargetTriple for a two-byte triple.
C5_Witness ==
    /\ Rendered("TargetRunnerError")
    /\ err.variant = "FailedToParseTargetTriple"
    /\ args.triple = <<97, 97>>

---------------------------------------------------------------------------
\* C6: every error value that carries a file path renders it: config parse
\* failures name the config file, event-writing failures tied to a file name
\* the destination file, for every path value.  (A Utf8PathBuf is rendered
\* byte for byte; the PathBuf of NonUtf8Path in its display() form.)
PathConstructors ==
    {"ConfigParseError::new", "TargetRunnerError::FailedToReadConfig",
     "TargetRunnerError::FailedToParseConfig",
     "TargetRunnerError::FailedPathCanonicalization",
     "WriteEventError::Fs", "WriteEventError::Junit"}

C6_PathIsRendered ==
    rendered.some =>
        /\ args.fn \in PathConstructors <=> "path" \in DOMAIN args
        /\ "path" \in DOMAIN args => Contains(rendered.val, args.path)
        /\ args.fn = "ConfigParseError::new" =>
               rendered.val = S_ConfigParse_pre \o args.path \o S_Backtick
        /\ args.fn \in {"WriteEventError::Fs", "WriteEventError::Junit"} =>
               IsSuffix(args.path, rendered.val)
        /\ "os_path" \in DOMAIN args =>
               Contains(rendered.val, PathDisplay(args.os_path))

\* A JUnit write failure for the destination /p, rendered.
C6_Witness ==
    /\ args.fn = "WriteEventError::Junit"
    /\ rendered.some
    /\ args.path = <<47, 112>>

---------------------------------------------------------------------------
\* C7: source() returns exactly the underlying error a value stores, and
\* None exactly for the values that store none: of the enum variants these
\* are ParseLine, InvalidEnvironmentVar, BinaryNotSpecified and NonUtf8Path.
\* A JUnit write failure chains WriteEventError::Junit -> JunitError -> the
\* library's error.
CauselessVariants ==
    {"ParseLine", "InvalidEnvironmentVar", "BinaryNotSpecified",
     "NonUtf8Path"}

C7_SourceIsStoredCause ==
    (IsModuleError(err) /\ Walked) =>
        /\ "cause" \in DOMAIN args =>
               /\ Len(chain) >= 1
               /\ chain[1] = args.cause
        /\ "cause" \notin DOMAIN args => (chain = <<>> /\ walk = "end")
        /\ "variant" \in DOMAIN err =>
               (chain = <<>> <=> err.variant \in CauselessVariants)
        /\ args.fn = "WriteEventError::Junit" =>
               /\ chain[1].type = "JunitError"
               /\ Len(chain) <= 2
               /\ Len(chain) = 2 => chain[2] = args.library
        /\ args.fn # "WriteEventError::Junit" => Len(chain) <= 1

\* The chain of a JUnit write failure walked down to the library's error.
C7_Witness ==
    /\ args.fn = "WriteEventError::Junit"
    /\ Len(chain) = 2
    /\ chain[2].lib = "quick_junit::Error"

---------------------------------------------------------------------------
\* An underlying error that is an I/O failure: a std::io::Error, or the
\* writer's I/O error as serde_json reports it.
IsIoFailure(c) ==
    \/ c.lib = "std::io::Error"
    \/ c.lib = "serde_json::Error" /\ c.category = "Io"

\* C8 as stated: the kinds of FromMessagesError and of WriteTestListError
\* are told apart by cause and message, and an I/O failure while writing the
\* list is never reported as the serialization kind.
C8_IoNeverReportedAsSerialization ==
    Rendered("WriteTestListError") =>
        /\ rendered.val \in {S_WritingToOutput, S_SerializingJson}
        /\ IsIoFailure(args.cause) => rendered.val # S_SerializingJson

\* C8 amended: a FromMessagesError is exactly one of ReadMessages (holding
\* a std::io::Error) or PackageGraph (holding a guppy::Error), a
\* WriteTestListError exactly one of Io (holding a std::io::Error) or Json
\* (holding a serde_json::Error), and the two kinds of each type render
\* different messages; an I/O failure that serde_json meets while writing
\* the JSON to the output is held by the Json kind and rendered as the
\* serialization failure.
C8_KindsDistinguishedByStoredCause ==
    /\ (IsModuleError(err) /\ err.type = "FromMessagesError") =>
           /\ err.variant \in {"ReadMessages", "PackageGraph"}
           /\ err.variant = "ReadMessages" <=> args.cause.lib = "std::io::Error"
           /\ err.variant = "PackageGraph" <=> args.cause.lib = "guppy::Error"
           /\ rendered.some =>
                  /\ rendered.val = S_ReadMessages
                         <=> err.variant = "ReadMessages"
                  /\ rendered.val = S_PackageGraph
                         <=> err.variant = "PackageGraph"
    /\ (IsModuleError(err) /\ err.type = "WriteTestListError") =>
           /\ err.variant \in {"Io", "Json"}
           /\ err.variant = "Io" <=> args.cause.lib = "std::io::Error"
           /\ err.variant = "Json" <=> args.cause.lib = "serde_json::Error"
           /\ rendered.some =>
                  /\ rendered.val = S_WritingToOutput <=> err.variant = "Io"
                  /\ rendered.val = S_SerializingJson
                         <=> err.variant = "Json"

\* A writer's I/O failure inside serde_json, rendered.
C8_Witness ==
    /\ Rendered("WriteTestListError")
    /\ args.cause.lib = "serde_json::Error"
    /\ args.cause.category = "Io"
    /\ rendered.val = S_SerializingJson

---------------------------------------------------------------------------
\* A list-building failure is exactly one of Command (names the command
\* run, chains the I/O cause) or ParseLine (carries the full output, has no
\* chained cause), and no value is both.
ExclusiveKinds ==
    (IsModuleError(err) /\ err.type = "ParseTestListError") =>
        /\ err.variant \in {"Command", "ParseLine"}
        /\ err.variant = "Command" =>
               /\ args.fn = "ParseTestListError::command"
               /\ DOMAIN err = {"type", "variant", "command", "error"}
               /\ err.command = args.command
               /\ rendered.some =>
                      Contains(rendered.val, Quoted(args.command))
               /\ Walked => chain = <<args.cause>>
        /\ err.variant = "ParseLine" =>
               /\ args.fn = "ParseTestListError::parse_line"
               /\ DOMAIN err = {"type", "variant", "message", "full_output"}
               /\ err.full_output = args.full_output
               /\ Walked => chain = <<>>

\* The messages a ParseLine failure can render.
ParseLineMessages ==
    {ParseTestListError_fmt(ParseTestListError_parse_line(m, o)) :
        m \in Messages, o \in Outputs}

\* The messages a Command failure can render, for the commands in cs.
CommandMessages(cs) ==
    {ParseTestListError_fmt(ParseTestListError_command(c, e)) :
        c \in cs, e \in IoErrors}

\* C9 as stated: a list-building failure is exactly one of Command or
\* ParseLine, no value is both, and the two kinds render different messages.
C9_KindsRenderDifferentMessages ==
    /\ ExclusiveKinds
    /\ Rendered("ParseTestListError") =>
           /\ err.variant = "Command" => rendered.val \notin ParseLineMessages
           /\ err.variant = "ParseLine"
                  => rendered.val \notin CommandMessages(Commands)

\* C9 amended: a list-building failure is exactly one of Command (names the
\* command run, chains the I/O cause) or ParseLine (carries the full output,
\* has no chained cause), and no value is both.  A Command failure renders
\* "running '<command>' failed", a ParseLine failure renders its message,
\* the line "full output:" and the output; the two render different
\* messages whenever the command does not itself contain a line
\* "full output:", and can render the same message when it does.
C9_LaunchAndParseFailuresExclusive ==
    /\ ExclusiveKinds
    /\ Rendered("ParseTestListError") =>
           /\ err.variant = "Command" =>
                  /\ rendered.val =
                         S_Running_pre \o args.command \o S_Running_post
                  /\ Contains(rendered.val, S_FullOutput)
                         <=> Contains(args.command, S_FullOutput)
                  /\ ~Contains(args.command, S_FullOutput)
                         => rendered.val \notin ParseLineMessages
           /\ err.variant = "ParseLine" =>
                  /\ rendered.val =
                         args.message \o S_FullOutput \o args.full_output
                  /\ rendered.val \notin CommandMessages(
                         {c \in Commands : ~Contains(c, S_FullOutput)})

\* A launch failure whose command has a line feed but no line
\* "full output:", rendered, and its cause asked for.
C9_Witness ==
    /\ args.fn = "ParseTestListError::command"
    /\ rendered.some
    /\ Len(chain) = 1
    /\ args.command = <<97, 10>>

---------------------------------------------------------------------------
\* The key and value that resolution matched, if any: the environment
\* variable before the configuration key.
Matched ==
    IF args.env.var = "Present"
    THEN Some(<<EnvKey(args.triple), args.env.val>>)
    ELSE IF args.env.var = "NotPresent" /\ args.config.some
    THEN Some(<<ConfigKey(args.triple), args.config.val>>)
    ELSE None

\* The value holds no runner binary: it is empty or all white space.
NoBinary(v) == \A i \in 1..Len(v) : v[i] = 32

\* C10: when resolution finds an environment variable or config key for the
\* triple whose value holds no runner binary, the result is the error
\* BinaryNotSpecified with that key and the value read, its message shows
\* both, and the match is never resolved to direct invocation.
C10_EmptyMatchIsBinaryNotSpecified ==
    (resolved # NotResolved /\ Matched.some /\ NoBinary(Matched.val[2])) =>
        /\ ~resolved.result.ok
        /\ resolved.result # Ok(None)
        /\ err = resolved.result.err
        /\ err.type = "TargetRunnerError"
        /\ err.variant = "BinaryNotSpecified"
        /\ err.key = Matched.val[1]
        /\ err.value = Matched.val[2]
        /\ rendered.some =>
               Contains(rendered.val,
                        Quoted(Matched.val[1]) \o <<32, 61, 32>>
                            \o Quoted(Matched.val[2]))

\* The config key matched with an all-space value, and the error rendered.
C10_Witness ==
    /\ resolved # NotResolved
    /\ args.env.var = "NotPresent"
    /\ args.config = Some(<<32, 32>>)
    /\ rendered.some

=============================================================================
